---- MODULE Spec2Model ----
(***************************************************************************)
(* tfvarenv: the version ledger, the deployment ledger and the workflows   *)
(* (upload, apply, destroy) that drive them, as a state machine.           *)
(*                                                                         *)
(* One environment is modelled.  The object store holds three things for   *)
(* it: the versioned tfvars blob (blobs), the version-ledger object        *)
(* (verObj) and the deployment-ledger object (depObj).  Every call to the  *)
(* store can fail (net = "err"); a ledger object can be absent, hold JSON, *)
(* or hold bytes that do not decode ("malformed").                         *)
(***************************************************************************)
EXTENDS Integers, Sequences, FiniteSets, TLC

\* ------------------------------------------------------------------ bounds
MaxBlobs == 2
MaxRecords == 2
MaxTime == 2
MaxHash == 2

\* ------------------------------------------------------- program constants
MaxStoredVersions == 100

StatusSuccess == "success"
StatusFailure == "failure"
StatusActive == "active"
StatusDestroyed == "destroyed"
CommandApply == "apply"

NoErr == ""
Net == {"ok", "err"}
Hashes == 1..MaxHash
Times == 1..MaxTime

\* ---------------------------------------------------------------- helpers
Min(a, b) == IF a < b THEN a ELSE b

Take(s, n) == SubSeq(s, 1, Min(n, Len(s)))

\* x put into xs, which is ordered by timestamp newest first, at any place
\* that keeps it ordered: after the records newer than x, among those of
\* x's timestamp
Inserted(xs, x) ==
  LET newer == Cardinality({i \in 1..Len(xs) :
                             xs[i].timestamp > x.timestamp})
      notOlder == Cardinality({i \in 1..Len(xs) :
                                xs[i].timestamp >= x.timestamp})
  IN { SubSeq(xs, 1, k) \o <<x>> \o SubSeq(xs, k + 1, Len(xs)) :
       k \in newer..notOlder }

\* sort.Slice(xs, func(i, j) { xs[i].Timestamp.After(xs[j].Timestamp) }):
\* the sort is not stable, so every arrangement of xs that is ordered by
\* timestamp, newest first, is a possible outcome.
RECURSIVE SortSliceByTimestampDesc(_)
SortSliceByTimestampDesc(xs) ==
  IF Len(xs) = 0 THEN {xs}
  ELSE UNION { Inserted(front, xs[Len(xs)]) :
               front \in SortSliceByTimestampDesc(SubSeq(xs, 1, Len(xs) - 1)) }

\* ------------------------------------------------------------ object store
\* nil *Version
NoVersion == [version_id |-> 0, hash |-> 0, timestamp |-> 0,
              description |-> << >>]

\* A description or search text is a sequence of characters; << >> is "".
\* The text getLocalVersion writes is kept as one unit.
LocalApplyDescription == <<"Uploaded during local apply from tfvars">>

\* strings.ToLower
ToLowerChar(c) ==
  CASE c = "A" -> "a"
    [] c = "B" -> "b"
    [] c = "Uploaded during local apply from tfvars"
         -> "uploaded during local apply from tfvars"
    [] OTHER -> c
ToLower(str) == [i \in 1..Len(str) |-> ToLowerChar(str[i])]

\* strings.Contains
Contains(str, substr) ==
  \E i \in 1..(Len(str) - Len(substr) + 1) :
    SubSeq(str, i, i + Len(substr) - 1) = substr

AbsentObject == [kind |-> "absent"]
MalformedObject == [kind |-> "malformed"]

\* aws.Client.DownloadFile: GetObject fails when the key is absent
\* (NoSuchKey) and when the call itself fails; both come back as one wrapped
\* error.
DownloadFile(obj, net) ==
  IF net = "err" \/ obj.kind = "absent"
    THEN [err |-> "failed to download file", content |-> AbsentObject]
    ELSE [err |-> NoErr, content |-> obj]

\* json.MarshalIndent of a VersionManagement
MarshalVersionManagement(m) ==
  [kind |-> "json", versions |-> m.versions,
   latest_version_id |-> m.latest_version_id]

\* json.Unmarshal into a VersionManagement
UnmarshalVersionManagement(content) ==
  IF content.kind = "json"
    THEN [err |-> NoErr,
          mgmt |-> [versions |-> content.versions,
                    latest_version_id |-> content.latest_version_id]]
    ELSE [err |-> "failed to decode", mgmt |-> [versions |-> << >>,
                                                latest_version_id |-> 0]]

\* ---------------------------------------------------------- version ledger
EmptyVersionManagement == [versions |-> << >>, latest_version_id |-> 0]

getVersionManagement(obj, net) ==
  LET out == DownloadFile(obj, net) IN
  IF out.err # NoErr
    THEN [err |-> NoErr, mgmt |-> EmptyVersionManagement]
    ELSE LET dec == UnmarshalVersionManagement(out.content) IN
         IF dec.err # NoErr
           THEN [err |-> "failed to decode version management",
                 mgmt |-> EmptyVersionManagement]
           ELSE [err |-> NoErr, mgmt |-> dec.mgmt]

\* AddVersion with the new version put at the end of the list, as the
\* earlier utils.AddVersion did
AddVersionAppending(obj, rd, wr, version) ==
  LET got == getVersionManagement(obj, rd)
      management == IF got.err # NoErr THEN EmptyVersionManagement
                                       ELSE got.mgmt
      data == MarshalVersionManagement(
                [versions |-> Append(management.versions, version),
                 latest_version_id |-> version.version_id])
  IN IF wr = "err"
       THEN [err |-> "failed to save version management", obj |-> obj]
       ELSE [err |-> NoErr, obj |-> data]

\* AddVersion(version): the result is the error returned and the ledger
\* object the store holds afterwards.
AddVersion(obj, rd, wr, version) ==
  LET got == getVersionManagement(obj, rd)
      management == IF got.err # NoErr THEN EmptyVersionManagement
                                       ELSE got.mgmt
      added == <<version>> \o management.versions
      kept == IF Len(added) > MaxStoredVersions
                THEN SubSeq(added, 1, MaxStoredVersions) ELSE added
      data == MarshalVersionManagement(
                [versions |-> kept, latest_version_id |-> version.version_id])
  IN IF wr = "err"
       THEN [err |-> "failed to save version management", obj |-> obj]
       ELSE [err |-> NoErr, obj |-> data]

\* QueryOptions: a zero time.Time is 0, Limit is not read by the manager
NoOptions == [Since |-> 0, Before |-> 0, Limit |-> 0, SortByDate |-> FALSE,
              LatestOnly |-> FALSE, SearchText |-> << >>]
LatestOnlyOptions == [NoOptions EXCEPT !.LatestOnly = TRUE]

matchesFilter(v, opts) ==
  /\ ~(opts.Since # 0 /\ v.timestamp < opts.Since)
  /\ ~(opts.Before # 0 /\ v.timestamp > opts.Before)
  /\ ~(opts.SearchText # << >>
        /\ ~Contains(ToLower(v.description), ToLower(opts.SearchText)))

\* filterVersions: the possible results (one, unless SortByDate sorts)
filterVersions(versions, opts) ==
  LET filtered == SelectSeq(versions, LAMBDA v : matchesFilter(v, opts)) IN
  IF opts.SortByDate THEN SortSliceByTimestampDesc(filtered)
                     ELSE {filtered}

\* GetVersions: the possible results
GetVersions(obj, net, opts) ==
  LET got == getVersionManagement(obj, net) IN
  IF got.err # NoErr
    THEN {[err |-> "failed to get version management", versions |-> << >>]}
    ELSE { [err |-> NoErr,
            versions |-> IF opts.LatestOnly /\ Len(vs) > 1
                           THEN SubSeq(vs, 1, 1) ELSE vs] :
           vs \in filterVersions(got.mgmt.versions, opts) }

GetLatestVersion(obj, net) ==
  LET res == CHOOSE r \in GetVersions(obj, net, LatestOnlyOptions) : TRUE IN
  IF res.err # NoErr THEN [err |-> res.err, version |-> NoVersion]
  ELSE IF Len(res.versions) = 0
    THEN [err |-> "no versions found", version |-> NoVersion]
    ELSE [err |-> NoErr, version |-> res.versions[1]]

GetVersion(obj, net, versionID) ==
  LET got == getVersionManagement(obj, net) IN
  IF got.err # NoErr
    THEN [err |-> "failed to get version management", version |-> NoVersion]
    ELSE LET hits == SelectSeq(got.mgmt.versions,
                               LAMBDA v : v.version_id = versionID) IN
         IF Len(hits) = 0
           THEN [err |-> "version not found", version |-> NoVersion]
           ELSE [err |-> NoErr, version |-> hits[1]]

\* ------------------------------------------------------- deployment ledger
\* nil *Record
NoRecord == [timestamp |-> 0, version_id |-> 0, command |-> "",
             status |-> "", error_message |-> ""]

\* History.LatestDeployment: nil, or a LatestInfo{Deployment, Status}
NoLatest == [set |-> FALSE, deployment |-> NoRecord, status |-> ""]
\* &LatestInfo{}
ZeroLatestInfo == [set |-> TRUE, deployment |-> NoRecord, status |-> ""]

EmptyHistory == [deployments |-> << >>, latest |-> NoLatest]

GetHistory(obj, net) ==
  LET out == DownloadFile(obj, net) IN
  IF out.err # NoErr
    THEN [err |-> NoErr, history |-> EmptyHistory]
    ELSE IF out.content.kind # "json"
      THEN [err |-> "failed to decode deployment history",
            history |-> EmptyHistory]
      ELSE [err |-> NoErr,
            history |-> [deployments |-> out.content.deployments,
                         latest |-> out.content.latest]]

\* saveHistory: the error returned and the object the store holds afterwards
saveHistory(obj, wr, history) ==
  IF wr = "err"
    THEN [err |-> "failed to save deployment history", obj |-> obj]
    ELSE [err |-> NoErr,
          obj |-> [kind |-> "json", deployments |-> history.deployments,
                   latest |-> history.latest]]

\* AddRecord(record): the possible results (the sort is not stable)
AddRecord(obj, rd, wr, record) ==
  LET got == GetHistory(obj, rd) IN
  IF got.err # NoErr
    THEN {[err |-> "failed to get deployment history", obj |-> obj]}
    ELSE LET appended == Append(got.history.deployments, record)
             latest == [set |-> TRUE, deployment |-> record,
                        status |-> StatusActive]
         IN IF wr = "err"
              \* the write fails, whichever way the sort came out
              THEN {saveHistory(obj, wr, [deployments |-> appended,
                                          latest |-> latest])}
              ELSE { saveHistory(obj, wr, [deployments |-> sorted,
                                           latest |-> latest]) :
                     sorted \in SortSliceByTimestampDesc(appended) }

MarkAsDestroyed(obj, rd, wr) ==
  LET got == GetHistory(obj, rd) IN
  IF got.err # NoErr
    THEN [err |-> "failed to get deployment history", obj |-> obj]
    ELSE LET h == got.history
             info == IF h.latest.set THEN h.latest ELSE ZeroLatestInfo
         IN saveHistory(obj, wr,
              [deployments |-> h.deployments,
               latest |-> [info EXCEPT !.status = StatusDestroyed]])

\* GetLatestDeployment: record = NoRecord with no error is "no deployment"
GetLatestDeployment(obj, net) ==
  LET got == GetHistory(obj, net) IN
  IF got.err # NoErr
    THEN [err |-> "failed to get deployment history", record |-> NoRecord]
    ELSE LET h == got.history IN
         IF h.latest.set /\ h.latest.deployment # NoRecord
           THEN [err |-> NoErr, record |-> h.latest.deployment]
           ELSE IF Len(h.deployments) > 0
             THEN [err |-> NoErr, record |-> h.deployments[1]]
             ELSE [err |-> NoErr, record |-> NoRecord]

\* ---------------------------------------------------------------- state
VARIABLES
  verObj,      \* the version-ledger object in the store
  depObj,      \* the deployment-ledger object in the store
  blobs,       \* the tfvars object's versions: blobs[id] is the content hash
  localHash,   \* hash of the local tfvars file, 0 when the file is absent
  lastAdded,   \* the version of the last AddVersion call that returned nil
  configFile,  \* the registry file .tfvarenv.json in the working directory
  mgr,         \* one process's config.manager: its Config and its mu
  threads,     \* the calls that process's goroutines make on the manager
  writers      \* the ledger calls of processes running side by side

vars == <<verObj, depObj, blobs, localHash, lastAdded, configFile, mgr,
          threads, writers>>

NotCalled == "not called"

\* The store as one command sees and leaves it, with what the command
\* returned: err, the version it resolved (vid), whether the external
\* terraform binary was run (tf), and the errors of the ledger writes it
\* made (addErr for AddVersion, recErr for AddRecord / MarkAsDestroyed).
Store == [verObj |-> verObj, depObj |-> depObj, blobs |-> blobs]

Outcome(err, st, vid, tf, addErr, recErr, added) ==
  [err |-> err, st |-> st, vid |-> vid, tf |-> tf, addErr |-> addErr,
   recErr |-> recErr, added |-> added]

\* aws.Client.UploadFile of the tfvars object: the store assigns the next
\* version id
PutBlob(st, hash) == [st EXCEPT !.blobs = Append(st.blobs, hash)]

\* aws.Client.DownloadFile of the tfvars object by version id
DownloadBlob(st, versionID, net) ==
  IF net = "err" \/ versionID \notin 1..Len(st.blobs)
    THEN "failed to download file" ELSE NoErr

\* ------------------------------------------------------- upload workflow
\* runUpload(envName, description, autoBackup): the possible outcomes
runUpload(st, local, autoBackup, description) ==
  IF local = 0
    THEN {Outcome("local file not found", st, 0, FALSE, NotCalled,
                  NotCalled, NoVersion)}
    ELSE UNION {
      LET latestVer == GetLatestVersion(st.verObj, rd1).version IN
      IF latestVer # NoVersion /\ latestVer.hash = local
        THEN {Outcome(NoErr, st, latestVer.version_id, FALSE, NotCalled,
                      NotCalled, NoVersion)}
        ELSE
          (IF autoBackup
             THEN {Outcome("failed to create backup", st, 0, FALSE,
                           NotCalled, NotCalled, NoVersion)}
             ELSE {})
          \cup {Outcome("upload failed", st, 0, FALSE, NotCalled,
                        NotCalled, NoVersion)}
          \cup UNION {
            LET put == PutBlob(st, local)
                newVersion == [version_id |-> Len(put.blobs),
                               hash |-> local, timestamp |-> now,
                               description |-> description]
                res == AddVersion(put.verObj, rd2, wr2, newVersion)
            IN {Outcome(NoErr, [put EXCEPT !.verObj = res.obj],
                        newVersion.version_id, FALSE, res.err, NotCalled,
                        IF res.err = NoErr THEN newVersion ELSE NoVersion)}
            : rd2 \in Net, wr2 \in Net, now \in Times }
      : rd1 \in Net }

\* -------------------------------------------------------- apply workflow
\* opts: [Remote, VersionID (0 is ""), AutoApprove]; env: [RequireApproval];
\* op: what the operator answers at a prompt and what the external tools do:
\* [answer, account ("match"/"mismatch"), terraform ("ok"/"fail")]

\* getRemoteVersion: the possible [err, version, st, addErr, added]
getRemoteVersion(st, opts) ==
  { LET r == IF opts.VersionID # 0
               THEN GetVersion(st.verObj, rd, opts.VersionID)
               ELSE GetLatestVersion(st.verObj, rd)
    IN [err |-> IF r.err # NoErr THEN "failed to get version information"
                                 ELSE NoErr,
        version |-> r.version, st |-> st, addErr |-> NotCalled,
        added |-> NoVersion]
    : rd \in Net }

\* getLocalVersion that goes on with the uploaded version when AddVersion
\* fails
getLocalVersionUnrecorded(st, local) ==
  IF local = 0
    THEN {[err |-> "failed to get file info", version |-> NoVersion,
           st |-> st, addErr |-> NotCalled, added |-> NoVersion]}
    ELSE UNION {
      LET latestVer == GetLatestVersion(st.verObj, rd1).version IN
      IF latestVer # NoVersion /\ latestVer.hash = local
        THEN {[err |-> NoErr, version |-> latestVer, st |-> st,
               addErr |-> NotCalled, added |-> NoVersion]}
        ELSE
          {[err |-> "failed to upload tfvars", version |-> NoVersion,
            st |-> st, addErr |-> NotCalled, added |-> NoVersion]}
          \cup {
            LET put == PutBlob(st, local)
                newVersion == [version_id |-> Len(put.blobs),
                               hash |-> local, timestamp |-> now,
                               description |-> LocalApplyDescription]
                res == AddVersion(put.verObj, rd2, wr2, newVersion)
            IN [err |-> NoErr, version |-> newVersion,
                st |-> [put EXCEPT !.verObj = res.obj],
                addErr |-> res.err,
                added |-> IF res.err = NoErr THEN newVersion ELSE NoVersion]
            : rd2 \in Net, wr2 \in Net, now \in Times }
      : rd1 \in Net }

\* getLocalVersion: the possible [err, version, st, addErr, added]
getLocalVersion(st, local) ==
  IF local = 0
    THEN {[err |-> "failed to get file info", version |-> NoVersion,
           st |-> st, addErr |-> NotCalled, added |-> NoVersion]}
    ELSE UNION {
      LET latestVer == GetLatestVersion(st.verObj, rd1).version IN
      IF latestVer # NoVersion /\ latestVer.hash = local
        THEN {[err |-> NoErr, version |-> latestVer, st |-> st,
               addErr |-> NotCalled, added |-> NoVersion]}
        ELSE
          {[err |-> "failed to upload tfvars", version |-> NoVersion,
            st |-> st, addErr |-> NotCalled, added |-> NoVersion]}
          \cup {
            LET put == PutBlob(st, local)
                newVersion == [version_id |-> Len(put.blobs),
                               hash |-> local, timestamp |-> now,
                               description |-> LocalApplyDescription]
                res == AddVersion(put.verObj, rd2, wr2, newVersion)
            IN IF res.err # NoErr
                 THEN [err |-> "failed to record version",
                       version |-> NoVersion, st |-> put,
                       addErr |-> res.err, added |-> NoVersion]
                 ELSE [err |-> NoErr, version |-> newVersion,
                       st |-> [put EXCEPT !.verObj = res.obj],
                       addErr |-> NoErr, added |-> newVersion]
            : rd2 \in Net, wr2 \in Net, now \in Times }
      : rd1 \in Net }

getVersionInfo(st, local, opts) ==
  IF opts.Remote THEN getRemoteVersion(st, opts)
                 ELSE getLocalVersion(st, local)

\* checkApproval that never asks
checkApprovalSkipped(opts, env, answer) == NoErr

\* checkApproval
checkApproval(opts, env, answer) ==
  IF env.RequireApproval /\ ~opts.AutoApprove /\ answer # "yes"
    THEN "deployment cancelled by user" ELSE NoErr

\* runTerraformApply with terraform.Runner.Apply: the possible
\* [err, tf]; tf says whether the terraform binary was executed
runTerraformApply(st, opts, versionInfo, op) ==
  (IF opts.Remote
     THEN { [err |-> "failed to download tfvars", tf |-> FALSE] :
            net \in {n \in Net :
                       DownloadBlob(st, versionInfo.version.version_id, n)
                         # NoErr} }
     ELSE {})
  \cup
  (IF \/ ~opts.Remote
      \/ DownloadBlob(st, versionInfo.version.version_id, "ok") = NoErr
     THEN {IF op.account # "match"
             THEN [err |-> "current AWS account does not match", tf |-> FALSE]
             ELSE IF op.terraform # "ok"
               THEN [err |-> "terraform command failed", tf |-> TRUE]
               ELSE [err |-> NoErr, tf |-> TRUE]}
     ELSE {})

\* apply.Manager.recordDeployment with the store answering the ledger read
\* with rd and the write with wr, at time now: the possible
\* [recErr, depObj]
recordDeploymentOnce(st, version, status, err, rd, wr, now) ==
  LET record == [timestamp |-> now,
                 version_id |-> version.version_id,
                 command |-> CommandApply, status |-> status,
                 error_message |-> err]
  IN { [recErr |-> r.err, depObj |-> r.obj] :
       r \in AddRecord(st.depObj, rd, wr, record) }

\* apply.Manager.recordDeployment: the possible [recErr, depObj]
applyRecordDeployment(st, version, status, err) ==
  UNION { recordDeploymentOnce(st, version, status, err, rd, wr, now)
          : rd \in Net, wr \in Net, now \in Times }

\* A run that has reached the point where Execute either returns or calls
\* recordDeployment (record says which)
Pending(err, st, version, tf, addErr, added, record, status) ==
  [err |-> err, st |-> st, version |-> version, tf |-> tf,
   addErr |-> addErr, added |-> added, record |-> record, status |-> status]

\* apply.Manager.Execute up to recordDeployment: the possible runs
applyRun(st, local, opts, env, op) ==
  UNION {
    IF vi.err # NoErr
      THEN {Pending(vi.err, vi.st, NoVersion, FALSE, vi.addErr, vi.added,
                    FALSE, "")}
    ELSE IF checkApproval(opts, env, op.answer) # NoErr
      THEN {Pending(checkApproval(opts, env, op.answer), vi.st, vi.version,
                    FALSE, vi.addErr, vi.added, FALSE, "")}
    ELSE { Pending(run.err, vi.st, vi.version, run.tf, vi.addErr, vi.added,
                   TRUE, IF run.err # NoErr THEN "failed" ELSE "success")
           : run \in runTerraformApply(vi.st, opts, vi, op) }
    : vi \in getVersionInfo(st, local, opts) }

\* apply.Manager.Execute from recordDeployment on, with the store answering
\* rd and wr at time now: the possible outcomes
applyRecordOnce(p, rd, wr, now) ==
  IF ~p.record
    THEN {Outcome(p.err, p.st, p.version.version_id, p.tf, p.addErr,
                  NotCalled, p.added)}
    ELSE { Outcome(p.err, [p.st EXCEPT !.depObj = rec.depObj],
                   p.version.version_id, p.tf, p.addErr, rec.recErr, p.added)
           : rec \in recordDeploymentOnce(p.st, p.version, p.status, p.err,
                                          rd, wr, now) }

\* apply.Manager.Execute from recordDeployment on: the possible outcomes.
\* What recordDeployment returns is logged, Execute returns the run's error.
applyRecord(p) ==
  IF ~p.record
    THEN {Outcome(p.err, p.st, p.version.version_id, p.tf, p.addErr,
                  NotCalled, p.added)}
    ELSE { Outcome(p.err, [p.st EXCEPT !.depObj = rec.depObj],
                   p.version.version_id, p.tf, p.addErr, rec.recErr, p.added)
           : rec \in applyRecordDeployment(p.st, p.version, p.status, p.err) }

\* apply.Manager.Execute: the possible outcomes
applyExecute(st, local, opts, env, op) ==
  UNION { applyRecord(p) : p \in applyRun(st, local, opts, env, op) }

\* ------------------------------------------------------ destroy workflow
\* opts: [VersionID (0 is ""), AutoApprove]; op: [typed, terraform], typed
\* being the line the operator types, as its words

\* getVersionToDestroy: the possible [err, version]
getVersionToDestroy(st, opts) ==
  IF opts.VersionID # 0
    THEN { LET r == GetVersion(st.verObj, rd, opts.VersionID) IN
           [err |-> IF r.err # NoErr THEN "failed to get specified version"
                                     ELSE NoErr,
            version |-> r.version]
           : rd \in Net }
    ELSE UNION {
      LET lastDeploy == GetLatestDeployment(st.depObj, rdH) IN
      IF lastDeploy.err # NoErr
        THEN {[err |-> "failed to get latest deployment",
               version |-> NoVersion]}
      ELSE IF lastDeploy.record = NoRecord
        THEN {[err |-> "no deployment history found", version |-> NoVersion]}
      ELSE { LET r == GetVersion(st.verObj, rdV,
                                 lastDeploy.record.version_id) IN
             [err |-> IF r.err # NoErr
                        THEN "failed to get last deployed version"
                        ELSE NoErr,
              version |-> r.version]
             : rdV \in Net }
      : rdH \in Net }

\* confirmDestroy: the operator types the environment's name, or not
EnvName == "envname"
\* fmt.Scanln(&input): input is the first word of the line (what follows
\* makes Scanln return an error, which confirmDestroy does not look at)
Scanln(line) == IF Len(line) = 0 THEN "" ELSE line[1]

confirmDestroy(envName, typed) == Scanln(typed) = envName

\* runTerraformDestroy with terraform.Runner.Destroy: the possible [err, tf]
runTerraformDestroy(st, versionInfo, op) ==
  { IF DownloadBlob(st, versionInfo.version.version_id, net) # NoErr
      THEN [err |-> "failed to download tfvars", tf |-> FALSE]
      ELSE IF op.terraform # "ok"
        THEN [err |-> "terraform command failed", tf |-> TRUE]
        ELSE [err |-> NoErr, tf |-> TRUE]
    : net \in Net }

\* destroy.Manager.recordDeployment: the possible [recErr, depObj]
destroyRecordDeployment(st, status) ==
  IF status = "success"
    THEN { LET r == MarkAsDestroyed(st.depObj, rd, wr) IN
           [recErr |-> r.err, depObj |-> r.obj]
           : rd \in Net, wr \in Net }
    ELSE {[recErr |-> NotCalled, depObj |-> st.depObj]}

\* destroy.Manager.Execute up to recordDeployment: the possible runs
destroyRun(st, opts, op) ==
  UNION {
    IF vi.err # NoErr
      THEN {Pending(vi.err, st, NoVersion, FALSE, NotCalled, NoVersion,
                    FALSE, "")}
    ELSE IF ~opts.AutoApprove /\ ~confirmDestroy(EnvName, op.typed)
      THEN {Pending("destroy cancelled by user", st, vi.version, FALSE,
                    NotCalled, NoVersion, FALSE, "")}
    ELSE { Pending(run.err, st, vi.version, run.tf, NotCalled, NoVersion,
                   TRUE, IF run.err # NoErr THEN "failed" ELSE "success")
           : run \in runTerraformDestroy(st, vi, op) }
    : vi \in getVersionToDestroy(st, opts) }

\* destroy.Manager.Execute from recordDeployment on: the possible outcomes
destroyRecord(p) ==
  IF ~p.record
    THEN {Outcome(p.err, p.st, p.version.version_id, p.tf, NotCalled,
                  NotCalled, NoVersion)}
    ELSE { Outcome(p.err, [p.st EXCEPT !.depObj = rec.depObj],
                   p.version.version_id, p.tf, NotCalled, rec.recErr,
                   NoVersion)
           : rec \in destroyRecordDeployment(p.st, p.status) }

\* destroy.Manager.Execute: the possible outcomes
destroyExecute(st, opts, op) ==
  UNION { destroyRecord(p) : p \in destroyRun(st, opts, op) }

\* ------------------------------------------- add: file status check
\* the hash of the empty file handleNoFiles creates
EmptyFileHash == 1

\* what a run of checkFilesStatus leaves and says: err, the store, the
\* local file (local), the handler taken (case), the prompt shown
\* (offered) and the sync report printed (report)
Checked(err, st, local, case, offered, report) ==
  [err |-> err, st |-> st, local |-> local, case |-> case,
   offered |-> offered, report |-> report]

\* handleNoFiles: writes an empty tfvars file
handleNoFiles(st, local) ==
  { IF io = "err"
      THEN Checked("failed to create empty tfvars file", st, local, "none",
                   "", "")
      ELSE Checked(NoErr, st, EmptyFileHash, "none", "", "")
    : io \in Net }

\* handleRemoteOnly: offers to download ver
handleRemoteOnly(st, local, ver, answer) ==
  IF answer # "yes"
    THEN {Checked(NoErr, st, local, "remote", "download", "")}
    ELSE UNION {
      IF DownloadBlob(st, ver.version_id, net) # NoErr
        THEN {Checked("failed to download tfvars", st, local, "remote",
                      "download", "")}
        ELSE { IF io = "err"
                 THEN Checked("failed to write tfvars file", st, local,
                              "remote", "download", "")
                 ELSE Checked(NoErr, st, st.blobs[ver.version_id], "remote",
                              "download", "")
               : io \in Net }
      : net \in Net }

\* handleLocalOnly: offers to upload the local file
handleLocalOnly(st, local, answer) ==
  IF answer # "yes"
    THEN {Checked(NoErr, st, local, "local", "upload", "")}
    ELSE {Checked("failed to read local file", st, local, "local", "upload",
                  ""),
          Checked("failed to upload tfvars", st, local, "local", "upload",
                  ""),
          Checked(NoErr, PutBlob(st, local), local, "local", "upload", "")}

\* handleBothExist: compares the local hash with remoteVer's and reads the
\* latest deployment for display
handleBothExist(st, local, remoteVer) ==
  {Checked("failed to calculate local file hash", st, local, "both", "", ""),
   Checked(NoErr, st, local, "both", "",
           IF local = remoteVer.hash THEN "in sync" ELSE "different")}

\* checkFilesStatus: the possible outcomes
checkFilesStatus(st, local, answer) ==
  UNION {
    LET localExists == local # 0
        latest == GetLatestVersion(st.verObj, rd)
        remoteExists == latest.err = NoErr /\ latest.version # NoVersion
    IN IF ~localExists /\ ~remoteExists THEN handleNoFiles(st, local)
       ELSE IF ~localExists
         THEN handleRemoteOnly(st, local, latest.version, answer)
       ELSE IF ~remoteExists THEN handleLocalOnly(st, local, answer)
       ELSE handleBothExist(st, local, latest.version)
    : rd \in Net }

\* ---------------------------------------------------------- plan command
\* runner.Plan(opts): the possible [err, tf]; opts is [Remote, VersionID],
\* op.account is how GetAccountID compares with the environment's account
\* id ("error" when the call fails).  DownloadFile with VersionID "" gets
\* the current version of the tfvars object.
runnerPlan(st, opts, op) ==
  IF op.account = "error"
    THEN {[err |-> "failed to get AWS account ID", tf |-> FALSE]}
  ELSE IF op.account # "match"
    THEN {[err |-> "current AWS account does not match", tf |-> FALSE]}
  ELSE
    { LET id == IF opts.VersionID = 0 THEN Len(st.blobs)
                                      ELSE opts.VersionID IN
      IF opts.Remote /\ DownloadBlob(st, id, net) # NoErr
        THEN [err |-> "failed to download tfvars", tf |-> FALSE]
      ELSE IF opts.Remote /\ io = "err"
        THEN [err |-> "failed to write temporary tfvars file", tf |-> FALSE]
      ELSE IF op.terraform # "ok"
        THEN [err |-> "terraform command failed", tf |-> TRUE]
        ELSE [err |-> NoErr, tf |-> TRUE]
      : net \in Net, io \in Net }

\* ----------------------------------------------------- download workflow
\* what a run of runDownload leaves and says: err, the local file (local),
\* the copy it put under .backups (backup, 0 when none), the version it
\* resolved (ver) and whether it called WriteFile (wrote)
Downloaded(err, local, backup, ver, wrote) ==
  [err |-> err, local |-> local, backup |-> backup, ver |-> ver,
   wrote |-> wrote]

\* the overwrite prompt of runDownload with its answer thrown away
confirmOverwriteUnasked(force, answer) == TRUE

\* runDownload: an existing local file that differs is overwritten with
\* --force or when the operator answers yes to "Do you want to overwrite it?"
confirmOverwrite(force, answer) == force \/ answer = "yes"

\* fileUtils.CreateBackup(env.Local.TFVarsPath, backupOpts): a copy of the
\* file under a new name in .backups/<env>
CreateBackup(local, io) ==
  IF io = "err" THEN [err |-> "failed to create backup", backup |-> 0]
                ELSE [err |-> NoErr, backup |-> local]

\* DownloadFile of ver by its version id, then WriteFile over the local path.
\* os.WriteFile truncates the file it opens: when it fails the file is as it
\* was, or holds the part that was written.
fetchAndWrite(st, local, backup, ver) ==
  UNION {
    IF DownloadBlob(st, ver.version_id, net) # NoErr
      THEN {Downloaded("failed to download", local, backup, ver, FALSE)}
      ELSE {Downloaded(NoErr, st.blobs[ver.version_id], backup, ver, TRUE)}
           \cup { Downloaded("failed to write file", part, backup, ver, TRUE)
                  : part \in {local} \cup Hashes }
    : net \in Net }

\* runDownload(envName, versionID, force): the possible outcomes; versionID
\* 0 is "", answer is what the operator types at the overwrite prompt
runDownload(st, local, versionID, force, answer) ==
  UNION {
    LET got == IF versionID # 0 THEN GetVersion(st.verObj, rd, versionID)
                                ELSE GetLatestVersion(st.verObj, rd)
        ver == got.version
    IN IF got.err # NoErr
         THEN {Downloaded("failed to get version information", local, 0,
                          NoVersion, FALSE)}
         ELSE {Downloaded("failed to check local file", local, 0, ver,
                          FALSE)}
              \cup
              (IF local = 0 THEN fetchAndWrite(st, local, 0, ver)
               ELSE {Downloaded("failed to calculate local file hash",
                                local, 0, ver, FALSE)}
                    \cup
                    (IF local = ver.hash
                       THEN {Downloaded(NoErr, local, 0, ver, FALSE)}
                     ELSE IF ~confirmOverwrite(force, answer)
                       THEN {Downloaded("download cancelled by user", local,
                                        0, ver, FALSE)}
                     ELSE UNION {
                       LET copy == CreateBackup(local, io) IN
                       IF copy.err # NoErr
                         THEN {Downloaded(copy.err, local, 0, ver, FALSE)}
                         ELSE fetchAndWrite(st, local, copy.backup, ver)
                       : io \in Net }))
    : rd \in Net }

\* ------------------------------------------------- environment registry
\* An Environment as AddEnvironment reads it: "" is a blank string field,
\* << >> a blank path.
DefaultTFVarsKey == "terraform.tfvars"
FixedRegion == "ap-northeast-1"

\* config.validateEnvironment with validateS3Config, validateAWSConfig and
\* validateLocalConfig: [err, env], env with the defaults filled in; mkdir
\* is what os.MkdirAll of the path's directory does
validateEnvironment(env, mkdir) ==
  IF env.Name = "" THEN [err |-> "environment name is required", env |-> env]
  ELSE IF env.Bucket = "" THEN [err |-> "S3 bucket is required", env |-> env]
  ELSE IF env.Prefix = "" THEN [err |-> "S3 prefix is required", env |-> env]
  ELSE
    LET s3 == IF env.TFVarsKey = ""
                THEN [env EXCEPT !.TFVarsKey = DefaultTFVarsKey] ELSE env
    IN
    IF s3.AccountID = ""
      THEN [err |-> "AWS account ID is required", env |-> s3]
    ELSE
      LET aws == IF s3.Region = "" THEN [s3 EXCEPT !.Region = FixedRegion]
                                   ELSE s3
      IN
      IF aws.TFVarsPath = << >>
        THEN [err |-> "local tfvars path is required", env |-> aws]
      ELSE IF mkdir = "err"
        THEN [err |-> "failed to create directory for tfvars", env |-> aws]
      ELSE [err |-> NoErr, env |-> aws]

\* the registry file: absent, or the JSON of a Config
AbsentFile == [kind |-> "absent"]
NoEnvironments == [n \in {} |-> 0]

\* config.NewManager with manager.load: the Config a command starts from
NewManager(file) ==
  IF file.kind = "absent"
    THEN [DefaultRegion |-> FixedRegion, Environments |-> NoEnvironments]
    ELSE file.config

\* manager.save: the file after os.WriteFile
save(file, cfg, wr) ==
  IF wr = "err" THEN [err |-> "failed to write config", file |-> file]
                ELSE [err |-> NoErr, file |-> [kind |-> "json", config |-> cfg]]

\* manager.AddEnvironment that stores without looking for the name
AddEnvironmentOverwriting(file, name, env, mkdir, wr) ==
  LET cfg == NewManager(file)
      v == validateEnvironment(env, mkdir)
  IN IF v.err # NoErr
       THEN [err |-> "invalid environment configuration", file |-> file]
       ELSE save(file,
                 [cfg EXCEPT !.Environments =
                    [n \in DOMAIN cfg.Environments \cup {name} |->
                       IF n = name THEN v.env ELSE cfg.Environments[n]]],
                 wr)

\* manager.AddEnvironment in a command started on the registry file:
\* [err, file]
AddEnvironment(file, name, env, mkdir, wr) ==
  LET cfg == NewManager(file)
      v == validateEnvironment(env, mkdir)
  IN IF v.err # NoErr
       THEN [err |-> "invalid environment configuration", file |-> file]
     ELSE IF name \in DOMAIN cfg.Environments
       THEN [err |-> "environment already exists", file |-> file]
     ELSE save(file,
               [cfg EXCEPT !.Environments =
                  [n \in DOMAIN cfg.Environments \cup {name} |->
                     IF n = name THEN v.env ELSE cfg.Environments[n]]],
               wr)

\* m.config.Environments[name] = *env
Assigned(cfg, name, env) ==
  [cfg EXCEPT !.Environments =
     [n \in DOMAIN cfg.Environments \cup {name} |->
        IF n = name THEN env ELSE cfg.Environments[n]]]

\* ------------------------------------------------------- ledger keys
\* A key is the sequence of the pieces fmt.Sprintf joins.
\* Environment.GetVersionMetadataKey: "%s/.%s.versions.json" of the prefix
\* and the tfvars key
GetVersionMetadataKey(env) ==
  <<env.Prefix, "/.", env.TFVarsKey, ".versions.json">>

\* Environment.GetDeploymentHistoryKey: "%s/.%s.deployments.json" of the
\* prefix and the environment's name
GetDeploymentHistoryKey(env) ==
  <<env.Prefix, "/.", env.Name, ".deployments.json">>

\* the ledger objects of the bucket of env, by key: the version manager and
\* the deployment manager of env put them at these keys
Bucket(env, st) ==
  [k \in {GetVersionMetadataKey(env), GetDeploymentHistoryKey(env)} |->
     IF k = GetVersionMetadataKey(env) THEN st.verObj ELSE st.depObj]

\* the object a GetObject of key finds in the bucket
GetObject(bucket, key) ==
  IF key \in DOMAIN bucket THEN bucket[key] ELSE AbsentObject

\* ------------------------------------------------------ update workflow
\* RemoveEnvironment(name): the entry is taken out and the registry file
\* rewritten: [err, file]
RemoveEnvironment(file, name, wr) ==
  LET cfg == NewManager(file) IN
  IF name \notin DOMAIN cfg.Environments
    THEN [err |-> "environment not found", file |-> file]
    ELSE save(file,
              [cfg EXCEPT !.Environments =
                 [n \in DOMAIN cfg.Environments \ {name} |->
                    cfg.Environments[n]]],
              wr)

\* UpdateEnvironment(name, env): the entry is replaced and the registry
\* file rewritten: [err, file]
UpdateEnvironment(file, name, env, mkdir, wr) ==
  LET cfg == NewManager(file)
      v == validateEnvironment(env, mkdir)
  IN IF v.err # NoErr
       THEN [err |-> "invalid environment configuration", file |-> file]
     ELSE IF name \notin DOMAIN cfg.Environments
       THEN [err |-> "environment not found", file |-> file]
     ELSE save(file, Assigned(cfg, name, v.env), wr)

\* the prompts of runUpdate: an answer that is blank after TrimSpace keeps
\* the current value
Edited(env, answers) ==
  [f \in DOMAIN env |->
     IF f = "Name" THEN env[f]
     ELSE IF f = "TFVarsPath"
       THEN (IF answers[f] = << >> THEN env[f] ELSE answers[f])
       ELSE (IF answers[f] = "" THEN env[f] ELSE answers[f])]

\* runUpdate(envName) with the operator's answers (answers.Name is the new
\* name, blank for none): [err, file]
runUpdate(file, envName, answers, mkdir, wrRemove, wr) ==
  LET cfg == NewManager(file) IN
  IF envName \notin DOMAIN cfg.Environments
    THEN [err |-> "failed to get environment info", file |-> file]
    ELSE
      LET env == Edited(cfg.Environments[envName], answers)
          newEnvName == answers.Name
      IN
      IF newEnvName # "" /\ newEnvName # envName
        THEN
          LET removed == RemoveEnvironment(file, envName, wrRemove) IN
          IF removed.err # NoErr
            THEN [err |-> "failed to remove old environment",
                  file |-> removed.file]
            ELSE
              LET added == AddEnvironment(removed.file, newEnvName,
                                          [env EXCEPT !.Name = newEnvName],
                                          mkdir, wr)
              IN IF added.err # NoErr
                   THEN [err |-> "failed to add updated environment",
                         file |-> added.file]
                   ELSE added
        ELSE
          LET updated == UpdateEnvironment(file, envName, env, mkdir, wr) IN
          IF updated.err # NoErr
            THEN [err |-> "failed to update environment",
                  file |-> updated.file]
            ELSE updated

\* ------------------------------------- the manager shared by goroutines
\* the goroutines of one process that call the manager: two add an
\* environment, one reads
Adders == {1, 2}
Readers == {3}
Threads == Adders \cup Readers

BlankEnvironment ==
  [Name |-> "", Bucket |-> "", Prefix |-> "", TFVarsKey |-> "",
   AccountID |-> "", Region |-> "", TFVarsPath |-> << >>]

\* a goroutine that has not called the manager yet
NoCall == [pc |-> "idle", call |-> "", name |-> "", env |-> BlankEnvironment,
           err |-> NoErr, names |-> {}]

\* the manager NewManager returns: the loaded Config and an unlocked mu
\* (writer is the goroutine holding mu.Lock, 0 for none; readers are the
\* goroutines holding mu.RLock)
ManagerOf(file) == [config |-> NewManager(file), writer |-> 0, readers |-> {}]

\* sync.RWMutex: Lock waits while mu is held in any way
CanLock(m) == m.writer = 0 /\ m.readers = {}
\* sync.RWMutex: RLock waits while a writer holds mu
CanRLock(m) == m.writer = 0

\* ------------------------------------------ processes side by side
\* Two tfvarenv processes work on the same environment.  Each makes one
\* ledger call, AddVersion or AddRecord; the call reads the ledger object
\* (getVersionManagement / GetHistory) and later writes the whole object
\* back (UploadFile), and the other process can run in between.
Procs == {1, 2}

\* a process's call: where it stands (pc), which call it is, the object it
\* read (seen) and how the read went (rd), the entry it adds, the error it
\* returned, and its place among the writes that reached the store (wrote,
\* 0 when its write did not)
NoWrite ==
  [pc |-> "idle", call |-> "", seen |-> AbsentObject, rd |-> "ok",
   version |-> NoVersion, record |-> NoRecord, err |-> NoErr, wrote |-> 0]

\* the number of writes that reached the store
Writes(ws) == Cardinality({p \in Procs : ws[p].wrote > 0})

\* --------------------------------------------------------------- actions
WithinBounds(st) ==
  /\ Len(st.blobs) <= MaxBlobs
  /\ st.depObj.kind = "json" => Len(st.depObj.deployments) <= MaxRecords

\* AddRecord lengthens the stored list by one when the ledger is read and
\* written; the run is followed while that keeps the list within MaxRecords
\* (the store's answers and the clock are held at one value in a run that
\* does not reach recordDeployment)
LedgerHasRoom(st, rd, wr) ==
  (rd = "ok" /\ wr = "ok" /\ st.depObj.kind = "json")
    => Len(st.depObj.deployments) < MaxRecords

\* a command ran with outcome o: the store it leaves
Ran(o) ==
  /\ WithinBounds(o.st)
  /\ verObj' = o.st.verObj
  /\ depObj' = o.st.depObj
  /\ blobs' = o.st.blobs
  /\ lastAdded' = IF o.added # NoVersion THEN o.added ELSE lastAdded
  /\ UNCHANGED <<localHash, configFile, mgr, threads, writers>>

\* the command lines an operator can give, and what the operator and the
\* external tools can do during the run
ApplyOpts ==
  {[Remote |-> FALSE, VersionID |-> 0, AutoApprove |-> a] : a \in BOOLEAN}
  \cup [Remote : {TRUE}, VersionID : 0..MaxBlobs, AutoApprove : BOOLEAN]
Envs == [RequireApproval : BOOLEAN]
ApplyRuns == [answer : {"yes", "no"}, account : {"match", "mismatch"},
              terraform : {"ok", "fail"}]
DestroyOpts == [VersionID : 0..MaxBlobs, AutoApprove : BOOLEAN]
DestroyRuns == [typed : {<<EnvName>>, <<"yes">>, <<"y">>, << >>,
                        <<EnvName, "please">>},
                terraform : {"ok", "fail"}]

\* An input the run does not read is held at one value: the answer when no
\* prompt is shown, the terraform result when the account check stops the
\* run, both tools when the operator declines.
ApplyInputs ==
  { in \in ApplyOpts \X Envs \X ApplyRuns :
      LET prompt == in[2].RequireApproval /\ ~in[1].AutoApprove
          declined == prompt /\ in[3].answer = "no"
      IN /\ ~prompt => in[3].answer = "yes"
         /\ in[3].account = "mismatch" => in[3].terraform = "ok"
         /\ declined => in[3].account = "match" }

DestroyInputs ==
  { in \in DestroyOpts \X DestroyRuns :
      LET declined == ~in[1].AutoApprove
                        /\ ~confirmDestroy(EnvName, in[2].typed)
      IN /\ in[1].AutoApprove => in[2].typed = <<EnvName>>
         /\ declined => in[2].terraform = "ok" }

Init ==
  /\ verObj = AbsentObject
  /\ depObj = AbsentObject
  /\ blobs = << >>
  /\ localHash = 0
  /\ lastAdded = NoVersion
  /\ configFile = AbsentFile
  /\ mgr = ManagerOf(configFile)
  /\ threads = [t \in Threads |-> NoCall]
  /\ writers = [p \in Procs |-> NoWrite]

\* the operator edits, creates or deletes the local tfvars file
EditLocal ==
  /\ \E h \in 0..MaxHash : h # localHash /\ localHash' = h
  /\ UNCHANGED <<verObj, depObj, blobs, lastAdded, configFile, mgr, threads, writers>>

\* the descriptions an operator gives with --description
Descriptions == {<< >>, <<"A", "b">>}

\* tfvarenv upload
Upload ==
  \E autoBackup \in BOOLEAN, description \in Descriptions :
    \E o \in runUpload(Store, localHash, autoBackup, description) : Ran(o)

\* tfvarenv apply: Execute on some input.  The runs are collected over the
\* inputs first, so that inputs that reach recordDeployment in the same way
\* are followed once.
Apply ==
  \E p \in UNION { applyRun(Store, localHash, in[1], in[2], in[3]) :
                   in \in ApplyInputs } :
    \E rd \in Net, wr \in Net, now \in Times :
      /\ IF p.record THEN LedgerHasRoom(p.st, rd, wr)
                     ELSE rd = "ok" /\ wr = "ok" /\ now = 1
      /\ \E o \in applyRecordOnce(p, rd, wr, now) : Ran(o)

\* tfvarenv destroy
Destroy ==
  \E p \in UNION { destroyRun(Store, in[1], in[2]) : in \in DestroyInputs } :
    \E o \in destroyRecord(p) : Ran(o)

\* something outside the tool leaves bytes that do not decode at a ledger key
CorruptVersionLedger ==
  /\ verObj.kind = "json"
  /\ verObj' = MalformedObject
  /\ UNCHANGED <<depObj, blobs, localHash, lastAdded, configFile, mgr,
               threads, writers>>

CorruptDeploymentLedger ==
  /\ depObj.kind = "json"
  /\ depObj' = MalformedObject
  /\ UNCHANGED <<verObj, blobs, localHash, lastAdded, configFile, mgr,
               threads, writers>>

\* tfvarenv add, from the file status check on
CheckFiles ==
  \E answer \in {"yes", "no"} :
    \E o \in checkFilesStatus(Store, localHash, answer) :
      /\ WithinBounds(o.st)
      /\ verObj' = o.st.verObj
      /\ depObj' = o.st.depObj
      /\ blobs' = o.st.blobs
      /\ localHash' = o.local
      /\ UNCHANGED <<lastAdded, configFile, mgr, threads, writers>>

\* the environments an operator can ask to add
EnvironmentInputs ==
  [Name : {"", "dev", "stg", "prod"}, Bucket : {"", "bucket"},
   Prefix : {"", "prefix"}, TFVarsKey : {"", "custom.tfvars"},
   AccountID : {"", "123456789012"}, Region : {"", "us-west-2"},
   TFVarsPath : {<< >>, <<"custom", "terraform.tfvars">>}]

\* commandUtils.AddEnvironment: the add command registers env under its name
AddEnvironmentCmd ==
  /\ \E env \in EnvironmentInputs, mkdir \in Net, wr \in Net :
       configFile' = AddEnvironment(configFile, env.Name, env, mkdir, wr).file
  /\ UNCHANGED <<verObj, depObj, blobs, localHash, lastAdded, mgr, threads, writers>>

\* Spec: the version ledger under the upload workflow, from an environment
\* that was never uploaded to.
Next ==
  \/ EditLocal
  \/ Upload
  \/ CorruptVersionLedger

Spec == Init /\ [][Next]_vars

\* SpecDeploy: the deployment ledger under apply and destroy, from an
\* environment with two uploaded versions, v1 and then v2 (the clock ran
\* backwards between the uploads), whose local file has since been removed.
UploadedVersion(i) ==
  [version_id |-> i, hash |-> i,
   timestamp |-> IF i = 1 THEN MaxTime ELSE MaxTime - 1,
   description |-> << >>]

InitDeploy ==
  /\ verObj = AddVersion(AddVersion(AbsentObject, "ok", "ok",
                                    UploadedVersion(1)).obj,
                         "ok", "ok", UploadedVersion(2)).obj
  /\ blobs = <<UploadedVersion(1).hash, UploadedVersion(2).hash>>
  /\ lastAdded = UploadedVersion(2)
  /\ localHash = 0
  /\ depObj = AbsentObject
  /\ configFile = AbsentFile
  /\ mgr = ManagerOf(configFile)
  /\ threads = [t \in Threads |-> NoCall]
  /\ writers = [p \in Procs |-> NoWrite]

NextDeploy ==
  \/ Apply
  \/ Destroy
  \/ CorruptDeploymentLedger

SpecDeploy == InitDeploy /\ [][NextDeploy]_vars

\* SpecAdd: the file status check of the add command next to uploads and
\* edits of the local file, from an environment that was never uploaded to.
NextAdd ==
  \/ EditLocal
  \/ Upload
  \/ CheckFiles
  \/ CorruptVersionLedger

SpecAdd == Init /\ [][NextAdd]_vars

\* SpecConfig: the environment registry under the add command, from a
\* working directory with no registry file or with one that tfvarenv init
\* wrote and whose default region was then edited.
InitRegistry ==
  /\ configFile \in
       {AbsentFile,
        [kind |-> "json",
         config |-> [DefaultRegion |-> "eu-west-1",
                     Environments |-> NoEnvironments]]}
  /\ verObj = AbsentObject
  /\ depObj = AbsentObject
  /\ blobs = << >>
  /\ localHash = 0
  /\ lastAdded = NoVersion
  /\ mgr = ManagerOf(configFile)
  /\ threads = [t \in Threads |-> NoCall]
  /\ writers = [p \in Procs |-> NoWrite]

\* tfvarenv update: the operator names an environment and answers the
\* prompts
UpdateCmd ==
  /\ \E envName \in {"dev", "stg", "prod"}, answers \in EnvironmentInputs,
        mkdir \in Net, wrRemove \in Net, wr \in Net :
       configFile' = runUpdate(configFile, envName, answers, mkdir,
                               wrRemove, wr).file
  /\ UNCHANGED <<verObj, depObj, blobs, localHash, lastAdded, mgr, threads, writers>>

NextRegistry ==
  \/ AddEnvironmentCmd
  \/ UpdateCmd

SpecConfig == InitRegistry /\ [][NextRegistry]_vars

\* SpecLock: one process whose goroutines call the manager it got from
\* NewManager, each goroutine making one call, one statement at a time.
\* the environments the two adding goroutines pass
SharedEnvironments ==
  {e \in EnvironmentInputs :
     /\ e.Name \in {"dev", "stg"}
     /\ e.Bucket # "" /\ e.Prefix # "" /\ e.TFVarsKey # ""
     /\ e.AccountID # "" /\ e.TFVarsPath # << >>}

Stores == <<verObj, depObj, blobs, localHash, lastAdded, writers>>

\* go m.AddEnvironment(env.Name, env)
CallAddEnvironment(t) ==
  /\ t \in Adders /\ threads[t].pc = "idle"
  /\ \E env \in SharedEnvironments :
       threads' = [threads EXCEPT ![t] =
                     [NoCall EXCEPT !.pc = "validate",
                                    !.call = "AddEnvironment",
                                    !.name = env.Name, !.env = env]]
  /\ UNCHANGED <<Stores, configFile, mgr>>

\* validateEnvironment(env), before the lock is taken
Validate(t) ==
  /\ threads[t].pc = "validate"
  /\ \E mkdir \in Net :
       LET v == validateEnvironment(threads[t].env, mkdir) IN
       threads' = [threads EXCEPT ![t] =
                     IF v.err # NoErr
                       THEN [@ EXCEPT !.pc = "done",
                               !.err = "invalid environment configuration"]
                       ELSE [@ EXCEPT !.pc = "lock", !.env = v.env]]
  /\ UNCHANGED <<Stores, configFile, mgr>>

\* m.mu.Lock()
Lock(t) ==
  /\ threads[t].pc = "lock"
  /\ CanLock(mgr)
  /\ mgr' = [mgr EXCEPT !.writer = t]
  /\ threads' = [threads EXCEPT ![t].pc = "exists"]
  /\ UNCHANGED <<Stores, configFile>>

\* if _, exists := m.config.Environments[name]; exists
Exists(t) ==
  /\ threads[t].pc = "exists"
  /\ threads' = [threads EXCEPT ![t] =
                   IF threads[t].name \in DOMAIN mgr.config.Environments
                     THEN [@ EXCEPT !.pc = "unlock",
                             !.err = "environment already exists"]
                     ELSE [@ EXCEPT !.pc = "assign"]]
  /\ UNCHANGED <<Stores, configFile, mgr>>

\* m.config.Environments[name] = *env
Assign(t) ==
  /\ threads[t].pc = "assign"
  /\ mgr' = [mgr EXCEPT !.config =
                          Assigned(@, threads[t].name, threads[t].env)]
  /\ threads' = [threads EXCEPT ![t].pc = "save"]
  /\ UNCHANGED <<Stores, configFile>>

\* return m.save()
SaveConfig(t) ==
  /\ threads[t].pc = "save"
  /\ \E wr \in Net :
       LET r == save(configFile, mgr.config, wr) IN
       /\ configFile' = r.file
       /\ threads' = [threads EXCEPT ![t] =
                        [@ EXCEPT !.pc = "unlock", !.err = r.err]]
  /\ UNCHANGED <<Stores, mgr>>

\* the deferred m.mu.Unlock()
Unlock(t) ==
  /\ threads[t].pc = "unlock"
  /\ mgr' = [mgr EXCEPT !.writer = 0]
  /\ threads' = [threads EXCEPT ![t].pc = "done"]
  /\ UNCHANGED <<Stores, configFile>>

\* go m.GetEnvironment(name)
CallGetEnvironment(t) ==
  /\ t \in Readers /\ threads[t].pc = "idle"
  /\ \E name \in {"dev", "stg"} :
       threads' = [threads EXCEPT ![t] =
                     [NoCall EXCEPT !.pc = "rlock",
                                    !.call = "GetEnvironment",
                                    !.name = name]]
  /\ UNCHANGED <<Stores, configFile, mgr>>

\* go m.ListEnvironments()
CallListEnvironments(t) ==
  /\ t \in Readers /\ threads[t].pc = "idle"
  /\ threads' = [threads EXCEPT ![t] =
                   [NoCall EXCEPT !.pc = "rlock",
                                  !.call = "ListEnvironments"]]
  /\ UNCHANGED <<Stores, configFile, mgr>>

\* m.mu.RLock()
RLock(t) ==
  /\ threads[t].pc = "rlock"
  /\ CanRLock(mgr)
  /\ mgr' = [mgr EXCEPT !.readers = @ \cup {t}]
  /\ threads' = [threads EXCEPT ![t].pc = "read"]
  /\ UNCHANGED <<Stores, configFile>>

\* the body of GetEnvironment or ListEnvironments: names is what the call
\* returns, the environment's name or the list of names
Read(t) ==
  /\ threads[t].pc = "read"
  /\ LET envs == DOMAIN mgr.config.Environments IN
     threads' = [threads EXCEPT ![t] =
       IF threads[t].call = "GetEnvironment"
         THEN IF threads[t].name \in envs
                THEN [@ EXCEPT !.pc = "runlock", !.names = {threads[t].name}]
                ELSE [@ EXCEPT !.pc = "runlock",
                        !.err = "environment not found"]
         ELSE IF envs = {}
                THEN [@ EXCEPT !.pc = "runlock",
                        !.err = "no environments found"]
                ELSE [@ EXCEPT !.pc = "runlock", !.names = envs]]
  /\ UNCHANGED <<Stores, configFile, mgr>>

\* the deferred m.mu.RUnlock()
RUnlock(t) ==
  /\ threads[t].pc = "runlock"
  /\ mgr' = [mgr EXCEPT !.readers = @ \ {t}]
  /\ threads' = [threads EXCEPT ![t].pc = "done"]
  /\ UNCHANGED <<Stores, configFile>>

NextLock ==
  \E t \in Threads :
    \/ CallAddEnvironment(t)
    \/ Validate(t)
    \/ Lock(t)
    \/ Exists(t)
    \/ Assign(t)
    \/ SaveConfig(t)
    \/ Unlock(t)
    \/ CallGetEnvironment(t)
    \/ CallListEnvironments(t)
    \/ RLock(t)
    \/ Read(t)
    \/ RUnlock(t)

SpecLock == InitRegistry /\ [][NextLock]_vars

\* ------------------------------------------------------------------ claims

\* the command lines of download and the answer at its overwrite prompt
DownloadInputs == (0..MaxBlobs) \X BOOLEAN \X {"yes", "no"}

\* tfvarenv download: runDownload on some input.  The runs are collected
\* over the inputs first, as the local file they leave, so that runs that
\* leave the same file are followed once.  The copy under .backups is a new
\* file that no command reads again; the run's outcome names it.
Download ==
  /\ \E left \in { o.local :
                    o \in UNION { runDownload(Store, localHash, in[1], in[2],
                                              in[3]) :
                                  in \in DownloadInputs } } :
       localHash' = left
  /\ UNCHANGED <<verObj, depObj, blobs, lastAdded, configFile, mgr, threads,
               writers>>

\* SpecDownload: downloads next to uploads and edits of the local file, from
\* an environment that was never uploaded to.
NextDownload ==
  \/ EditLocal
  \/ Upload
  \/ Download
  \/ CorruptVersionLedger

SpecDownload == Init /\ [][NextDownload]_vars

\* the records a run of apply or destroy can write
Records ==
  [timestamp : Times, version_id : 1..MaxBlobs, command : {CommandApply},
   status : {"success", "failed"},
   error_message : {NoErr, "failed to download tfvars",
                    "current AWS account does not match",
                    "terraform command failed"}]

\* SpecRace: two processes, each making one ledger call on the same
\* environment, one store request at a time.
Rest == <<localHash, configFile, mgr, threads>>

\* the records the two processes add
RaceRecords(p) ==
  {r \in Records :
     /\ r.version_id = p
     /\ r.error_message \in {NoErr, "terraform command failed"}
     /\ (r.status = "success") <=> (r.error_message = NoErr)}

\* process p has uploaded a tfvars file and calls AddVersion with the
\* version the store assigned
StartAddVersion(p) ==
  /\ writers[p].pc = "idle"
  /\ Len(blobs) < MaxBlobs
  /\ \E h \in Hashes, now \in Times :
       /\ blobs' = Append(blobs, h)
       /\ writers' = [writers EXCEPT ![p] =
            [NoWrite EXCEPT !.pc = "read", !.call = "AddVersion",
               !.version = [version_id |-> Len(blobs) + 1, hash |-> h,
                            timestamp |-> now, description |-> << >>]]]
  /\ UNCHANGED <<verObj, depObj, lastAdded, Rest>>

\* process p has run terraform and calls AddRecord
StartAddRecord(p) ==
  /\ writers[p].pc = "idle"
  /\ \E record \in RaceRecords(p) :
       writers' = [writers EXCEPT ![p] =
         [NoWrite EXCEPT !.pc = "read", !.call = "AddRecord",
                         !.record = record]]
  /\ UNCHANGED <<verObj, depObj, blobs, lastAdded, Rest>>

\* getVersionManagement / GetHistory: the call downloads the ledger object;
\* AddRecord returns when the history cannot be had, AddVersion goes on
ReadLedger(p) ==
  /\ writers[p].pc = "read"
  /\ \E rd \in Net :
       LET w == writers[p]
           seen == IF w.call = "AddVersion" THEN verObj ELSE depObj
           failed == w.call = "AddRecord" /\ GetHistory(seen, rd).err # NoErr
       IN writers' = [writers EXCEPT ![p] =
            [w EXCEPT !.seen = seen, !.rd = rd,
               !.pc = IF failed THEN "done" ELSE "write",
               !.err = IF failed THEN "failed to get deployment history"
                                 ELSE NoErr]]
  /\ UNCHANGED <<verObj, depObj, blobs, lastAdded, Rest>>

\* UploadFile of the marshalled ledger: the call puts what it built from the
\* object it read, and returns
WriteLedger(p) ==
  /\ writers[p].pc = "write"
  /\ LET w == writers[p]
         Finished(r) ==
           writers' = [writers EXCEPT ![p] =
             [w EXCEPT !.pc = "done", !.err = r.err,
                !.wrote = IF r.err = NoErr THEN Writes(writers) + 1 ELSE 0]]
     IN \E wr \in Net :
          IF w.call = "AddVersion"
            THEN LET r == AddVersion(w.seen, w.rd, wr, w.version) IN
                 /\ Finished(r)
                 /\ verObj' = IF r.err = NoErr THEN r.obj ELSE verObj
                 /\ lastAdded' = IF r.err = NoErr THEN w.version
                                                   ELSE lastAdded
                 /\ UNCHANGED depObj
            ELSE \E r \in AddRecord(w.seen, w.rd, wr, w.record) :
                 /\ Finished(r)
                 /\ depObj' = IF r.err = NoErr THEN r.obj ELSE depObj
                 /\ UNCHANGED <<verObj, lastAdded>>
  /\ UNCHANGED <<blobs, Rest>>

NextRace ==
  \E p \in Procs :
    \/ StartAddVersion(p)
    \/ StartAddRecord(p)
    \/ ReadLedger(p)
    \/ WriteLedger(p)

SpecRace == Init /\ [][NextRace]_vars

\* the deployment records and the latest-deployment pointer the store holds
StoredDeployments == IF depObj.kind = "json" THEN depObj.deployments ELSE << >>
StoredLatest == IF depObj.kind = "json" THEN depObj.latest ELSE NoLatest

CountOf(xs, x) == Cardinality({i \in 1..Len(xs) : xs[i] = x})

\* C1: after successful AddVersion calls, GetLatestVersion returns the entry
\* added by the last of them, whatever the timestamps are: whenever
\* GetLatestVersion returns a version it is the one the last successful
\* AddVersion added, and it does return one when the stored ledger can be
\* read and decoded.
C1_LatestIsLastAdded ==
  lastAdded # NoVersion =>
    /\ \A net \in Net :
         LET r == GetLatestVersion(verObj, net) IN
         r.err = NoErr => r.version = lastAdded
    /\ verObj.kind = "json" =>
         GetLatestVersion(verObj, "ok") = [err |-> NoErr,
                                           version |-> lastAdded]

\* the last version added carries an older timestamp than the one before it
C1_Witness ==
  /\ verObj.kind = "json"
  /\ Len(verObj.versions) >= 2
  /\ lastAdded = verObj.versions[1]
  /\ lastAdded.timestamp < verObj.versions[2].timestamp

\* C2: running the upload workflow again with unchanged local content adds
\* nothing: when the local file's hash is the hash of the entry the last
\* upload added, which heads the ledger, a run of the workflow puts no blob
\* and leaves the ledger as it is.
C2_SecondUploadAddsNothing ==
  ( /\ verObj.kind = "json"
    /\ lastAdded # NoVersion
    /\ verObj.versions[1] = lastAdded
    /\ lastAdded.hash = localHash )
  => \A autoBackup \in BOOLEAN, description \in Descriptions :
       \A o \in runUpload(Store, localHash, autoBackup, description) :
         /\ o.st.blobs = blobs
         /\ o.st.verObj = verObj

\* C3: with no version id given, destroy uses the version of the last
\* successful deploy: the version it resolves is the version_id of a stored
\* record with status success, and no stored success record is newer than
\* every success record of that version.
C3_DestroyUsesLastSuccessfulDeploy ==
  \A in \in DestroyInputs :
    in[1].VersionID = 0 =>
      \A p \in destroyRun(Store, in[1], in[2]) :
        p.version # NoVersion =>
          \E i \in 1..Len(StoredDeployments) :
            /\ StoredDeployments[i].status = StatusSuccess
            /\ StoredDeployments[i].version_id = p.version.version_id
            /\ \A j \in 1..Len(StoredDeployments) :
                 StoredDeployments[j].status = StatusSuccess =>
                   StoredDeployments[j].timestamp
                     <= StoredDeployments[i].timestamp

\* C4: an apply with require_approval set, without auto-approve, that the
\* operator declines returns an error (cancelled by user, once the version
\* is resolved), does not run terraform and leaves the deployment ledger as
\* it is, whichever version is asked for and whatever the local file holds
\* (a remote apply does not read the local file; a declined apply reads
\* neither the account check nor the terraform result).
C4_DeclinedApplyChangesNothing ==
  \A in \in ApplyInputs :
    LET opts == in[1]
        env == in[2]
        op == in[3]
    IN (env.RequireApproval /\ ~opts.AutoApprove /\ op.answer = "no") =>
      \A local \in IF opts.Remote THEN {localHash} ELSE 0..MaxHash :
      \A o \in applyExecute(Store, local, opts, env, op) :
        /\ o.err # NoErr
        /\ o.vid # 0 => o.err = "deployment cancelled by user"
        /\ ~o.tf
        /\ o.recErr = NotCalled
        /\ o.st.depObj = depObj

\* declined applies whose version was resolved, one from the store and one
\* from a local file that had to be uploaded first, on an environment that
\* has deployment records and a latest pointer
C4_Witness ==
  /\ Len(StoredDeployments) > 0
  /\ StoredLatest.set
  /\ \E opts \in ApplyOpts, op \in ApplyRuns :
       /\ opts.Remote /\ ~opts.AutoApprove /\ op.answer = "no"
       /\ \E o \in applyExecute(Store, localHash, opts,
                                 [RequireApproval |-> TRUE], op) :
            o.err = "deployment cancelled by user" /\ o.vid # 0
  /\ \E opts \in ApplyOpts, op \in ApplyRuns, local \in Hashes :
       /\ ~opts.Remote /\ ~opts.AutoApprove /\ op.answer = "no"
       /\ \E o \in applyExecute(Store, local, opts,
                                 [RequireApproval |-> TRUE], op) :
            /\ o.err = "deployment cancelled by user"
            /\ o.added # NoVersion

\* C5: AddVersion on a ledger object that holds malformed content returns an
\* error and does not write the object.
C5_MalformedLedgerIsKept ==
  verObj.kind = "malformed" =>
    \A rd \in Net, wr \in Net, h \in Hashes, t \in Times :
      LET r == AddVersion(verObj, rd, wr,
                          [version_id |-> Len(blobs) + 1, hash |-> h,
                           timestamp |-> t, description |-> << >>])
      IN r.err # NoErr /\ r.obj = verObj

\* C6: loading a ledger yields the empty ledger with no error only when the
\* ledger object is absent from the store, whether the read itself works or
\* fails.
C6_EmptyOnlyWhenAbsent ==
  \A net \in Net :
    /\ getVersionManagement(verObj, net)
          = [err |-> NoErr, mgmt |-> EmptyVersionManagement]
       => verObj.kind = "absent"
    /\ GetHistory(depObj, net) = [err |-> NoErr, history |-> EmptyHistory]
       => depObj.kind = "absent"

\* C7: a successful AddVersion leaves the ledger holding the new version
\* followed by the versions it held before, newest first, cut to the 100
\* most recent (so n calls from an absent ledger leave the min(n, 100) most
\* recently added ones).
C7_LedgerKeepsMostRecent ==
  verObj.kind \in {"absent", "json"} =>
    \A rd \in Net, wr \in Net, h \in Hashes, t \in Times :
      LET v == [version_id |-> Len(blobs) + 1, hash |-> h, timestamp |-> t,
                description |-> << >>]
          before == IF verObj.kind = "json" THEN verObj.versions ELSE << >>
          r == AddVersion(verObj, rd, wr, v)
      IN r.err = NoErr =>
           /\ r.obj.versions = Take(<<v>> \o before, MaxStoredVersions)
           /\ Len(r.obj.versions) <= MaxStoredVersions

\* C8: a successful AddRecord adds exactly one record to the history, keeps
\* every record stored before it, and leaves the list ordered by timestamp,
\* newest first.
C8_AddRecordKeepsHistory ==
  depObj.kind \in {"absent", "json"} =>
    \A rd \in Net, wr \in Net, record \in Records :
      \A r \in AddRecord(depObj, rd, wr, record) :
        r.err = NoErr =>
          LET after == r.obj.deployments IN
          /\ Len(after) = Len(StoredDeployments) + 1
          /\ \A x \in Records :
               CountOf(after, x) = CountOf(StoredDeployments, x)
                                     + (IF x = record THEN 1 ELSE 0)
          /\ \A i \in 1..(Len(after) - 1) :
               after[i].timestamp >= after[i + 1].timestamp

\* C9: a successful MarkAsDestroyed sets the pointer's status to destroyed
\* and leaves the history list and the pointer's embedded record as they
\* were; with no history it creates a pointer with no record, and
\* GetLatestDeployment still reports no deployment.
C9_MarkAsDestroyedKeepsHistory ==
  depObj.kind \in {"absent", "json"} =>
    \A rd \in Net, wr \in Net :
      LET r == MarkAsDestroyed(depObj, rd, wr) IN
      r.err = NoErr =>
        /\ r.obj.latest.set
        /\ r.obj.latest.status = StatusDestroyed
        /\ r.obj.deployments = StoredDeployments
        /\ r.obj.latest.deployment = StoredLatest.deployment
        /\ depObj.kind = "absent" =>
             GetLatestDeployment(r.obj, "ok")
               = [err |-> NoErr, record |-> NoRecord]

\* C10: GetLatestDeployment returns the record embedded in the pointer when
\* the pointer has one, otherwise the first record of the history list, and
\* no deployment with no error when the history is empty.
C10_LatestDeploymentIsPointerRecord ==
  depObj.kind \in {"absent", "json"} =>
    \A net \in Net :
      LET r == GetLatestDeployment(depObj, net) IN
      r.err = NoErr =>
        r.record = IF StoredLatest.set /\ StoredLatest.deployment # NoRecord
                     THEN StoredLatest.deployment
                   ELSE IF Len(StoredDeployments) > 0
                     THEN StoredDeployments[1]
                     ELSE NoRecord

\* C11: every apply that passes approval and comes back from
\* runTerraformApply appends exactly one record to the deployment ledger:
\* status success and no error message when the run succeeded, status
\* failure and the error text when it failed; the status is one of the
\* ledger's two status values and the error message is there exactly when
\* the status is failure.
C11_ApplyRecordsOutcome ==
  depObj.kind \in {"absent", "json"} =>
    \A in \in ApplyInputs :
      \A p \in applyRun(Store, localHash, in[1], in[2], in[3]) :
        p.record =>
          \A o \in applyRecord(p) :
            /\ o.st.depObj.kind = "json"
            /\ Len(o.st.depObj.deployments) = Len(StoredDeployments) + 1
            /\ \E i \in 1..Len(o.st.depObj.deployments) :
                 LET rec == o.st.depObj.deployments[i] IN
                 /\ rec.version_id = p.version.version_id
                 /\ rec.status = IF p.err = NoErr THEN StatusSuccess
                                                  ELSE StatusFailure
                 /\ rec.error_message = p.err
                 /\ rec.status \in {StatusSuccess, StatusFailure}
                 /\ (rec.error_message # NoErr) <=> (rec.status = StatusFailure)

\* every blob version of the tfvars object has an entry in the version ledger
BlobsRecorded(st) ==
  \A id \in 1..Len(st.blobs) :
    /\ st.verObj.kind = "json"
    /\ \E i \in 1..Len(st.verObj.versions) :
         st.verObj.versions[i].version_id = id

\* C12: when an upload puts the blob and the ledger append then fails, the
\* workflow returns no error (it warns), and a second upload of the same
\* local content that returns without error or warning leaves every blob
\* version with a ledger entry and the local content's hash at the head of
\* the ledger.
C12_RerunRestoresLedger ==
  (localHash # 0 /\ BlobsRecorded(Store)) =>
    \A ab1 \in BOOLEAN, d1 \in Descriptions :
      \A o1 \in runUpload(Store, localHash, ab1, d1) :
        (Len(o1.st.blobs) > Len(blobs) /\ o1.addErr # NoErr) =>
          /\ o1.err = NoErr
          /\ \A ab2 \in BOOLEAN, d2 \in Descriptions :
               \A o2 \in runUpload(o1.st, localHash, ab2, d2) :
                 (o2.err = NoErr /\ o2.addErr \in {NoErr, NotCalled}) =>
                   /\ BlobsRecorded(o2.st)
                   /\ o2.st.verObj.versions[1].hash = localHash

\* the registry a command finds in the file
Registered == NewManager(configFile).Environments

\* C13 as stated: AddEnvironment with a registered name fails with the
\* already-exists error and leaves the registry file as it is.
C13_DuplicateIsAlreadyExists ==
  \A env \in EnvironmentInputs, mkdir \in Net, wr \in Net :
    env.Name \in DOMAIN Registered =>
      LET r == AddEnvironment(configFile, env.Name, env, mkdir, wr) IN
      /\ r.err = "environment already exists"
      /\ r.file = configFile

\* C13: AddEnvironment with a registered name fails and leaves the registry
\* file as it is (no entry changed, added or removed); the error is the
\* already-exists error when the environment passes validation and the
\* validation error when it does not.
C13_DuplicateIsRejected ==
  \A env \in EnvironmentInputs, mkdir \in Net, wr \in Net :
    env.Name \in DOMAIN Registered =>
      LET r == AddEnvironment(configFile, env.Name, env, mkdir, wr) IN
      /\ r.err = IF validateEnvironment(env, mkdir).err = NoErr
                   THEN "environment already exists"
                   ELSE "invalid environment configuration"
      /\ r.file = configFile
      /\ NewManager(r.file).Environments = Registered

\* a registered name is offered again with valid fields that differ from
\* the stored entry's
C13_Witness ==
  \E env \in EnvironmentInputs :
    /\ env.Name \in DOMAIN Registered
    /\ validateEnvironment(env, "ok").err = NoErr
    /\ validateEnvironment(env, "ok").env # Registered[env.Name]
    /\ AddEnvironment(configFile, env.Name, env, "ok", "ok").err
         = "environment already exists"

\* the per-environment default path
DefaultTFVarsPath(name) == <<"environments", name, "terraform.tfvars">>

\* C14: AddEnvironment accepts an environment whose name, bucket and prefix
\* are not blank and whose name is not registered, and rejects one with any
\* of the three blank as invalid; the stored entry has the default filename
\* for a blank tfvars key, the registry's default region for a blank region
\* and the per-environment path for a blank local path, and the given values
\* otherwise.
C14_RequiredFieldsAndDefaults ==
  \A env \in EnvironmentInputs :
    LET cfg == NewManager(configFile)
        r == AddEnvironment(configFile, env.Name, env, "ok", "ok")
    IN
    /\ (env.Name = "" \/ env.Bucket = "" \/ env.Prefix = "")
         => r.err = "invalid environment configuration"
    /\ (env.Name # "" /\ env.Bucket # "" /\ env.Prefix # ""
        /\ env.Name \notin DOMAIN cfg.Environments)
         => /\ r.err = NoErr
            /\ env.Name \in DOMAIN NewManager(r.file).Environments
            /\ NewManager(r.file).Environments[env.Name] =
                 [env EXCEPT
                    !.TFVarsKey = IF @ = "" THEN DefaultTFVarsKey ELSE @,
                    !.Region = IF @ = "" THEN cfg.DefaultRegion ELSE @,
                    !.TFVarsPath = IF @ = << >>
                                     THEN DefaultTFVarsPath(env.Name) ELSE @]

\* the entries of the stored version ledger
StoredVersions == IF verObj.kind = "json" THEN verObj.versions ELSE << >>

\* C15: with a local file and no remote version, an accepted upload offer
\* that returns without error leaves the version ledger with exactly one
\* more entry, which carries the local file's hash and is what
\* GetLatestVersion returns.
C15_LocalOnlyUploadIsRecorded ==
  (localHash # 0 /\ verObj.kind \in {"absent", "json"}
   /\ Len(StoredVersions) = 0) =>
    \A o \in checkFilesStatus(Store, localHash, "yes") :
      (o.err = NoErr /\ o.offered = "upload") =>
        /\ o.st.verObj.kind = "json"
        /\ Len(o.st.verObj.versions) = Len(StoredVersions) + 1
        /\ o.st.verObj.versions[1].hash = localHash
        /\ GetLatestVersion(o.st.verObj, "ok").version
             = o.st.verObj.versions[1]

\* C16: with a local file and a remote version, the check reports in sync
\* exactly when the local hash is the latest version's hash and different
\* otherwise, and leaves the local file and the store as they are.
C16_BothExistOnlyReports ==
  (localHash # 0 /\ Len(StoredVersions) > 0) =>
    \A answer \in {"yes", "no"} :
      \A o \in checkFilesStatus(Store, localHash, answer) :
        /\ o.err = NoErr =>
             o.report = IF localHash = StoredVersions[1].hash
                          THEN "in sync" ELSE "different"
        /\ o.local = localHash
        /\ o.st = Store

\* C17: with no local file and a remote version, the check offers the
\* download, and when the operator declines the local file is still absent
\* and the store is as it was.
C17_DeclinedDownloadChangesNothing ==
  (localHash = 0 /\ Len(StoredVersions) > 0) =>
    \A o \in checkFilesStatus(Store, localHash, "no") :
      /\ o.offered = "download"
      /\ o.local = 0
      /\ o.st = Store

\* the queries an operator can make
Queries ==
  [Since : 0..MaxTime, Before : 0..MaxTime, Limit : 0..MaxBlobs,
   SortByDate : BOOLEAN, LatestOnly : BOOLEAN,
   SearchText : {<< >>, <<"a">>, <<"B">>, <<"b", "a">>}]

\* the entries of versions that satisfy every filter of a query, in order
Satisfying(versions, q) ==
  SelectSeq(versions,
            LAMBDA v :
              /\ (q.Since # 0 => v.timestamp >= q.Since)
              /\ (q.Before # 0 => v.timestamp <= q.Before)
              /\ (q.SearchText # << >> =>
                    Contains(ToLower(v.description), ToLower(q.SearchText))))

\* C18: GetVersions returns the ledger entries that satisfy every filter, in
\* ledger order or, with sort-by-date, by timestamp descending, cut to the
\* first entry with latest_only and to at most limit entries with a limit
\* above zero.
C18_GetVersionsFiltersSortsCuts ==
  verObj.kind \in {"absent", "json"} =>
    \A q \in Queries, net \in Net :
      \A r \in GetVersions(verObj, net, q) :
        r.err = NoErr =>
          \E ordered \in IF q.SortByDate
                           THEN SortSliceByTimestampDesc(
                                  Satisfying(StoredVersions, q))
                           ELSE {Satisfying(StoredVersions, q)} :
            LET first == IF q.LatestOnly THEN Take(ordered, 1) ELSE ordered
            IN r.versions = IF q.Limit > 0 THEN Take(first, q.Limit)
                                           ELSE first

\* the version ids a version-ledger object holds
LedgerIds(obj) ==
  IF obj.kind = "json"
    THEN {obj.versions[i].version_id : i \in 1..Len(obj.versions)}
    ELSE {}

C20_DestroyNeedsTheExactName ==
  \A opts \in DestroyOpts, op \in DestroyRuns :
    (~opts.AutoApprove /\ op.typed # <<EnvName>>) =>
      \A o \in destroyExecute(Store, opts, op) :
        /\ o.err # NoErr
        /\ o.vid # 0 => o.err = "destroy cancelled by user"
        /\ ~o.tf
        /\ o.recErr = NotCalled
        /\ o.st.depObj = depObj

\* C21: a destroy that returns no error leaves the deployment ledger with
\* the pointer's status destroyed, the history list as it was and the
\* pointer's embedded record as it was; a destroy that returns an error
\* leaves the ledger, the pointer's status included, as it was. (Destroy
\* writes the ledger through MarkAsDestroyed only, so a destroyed status
\* stays until an apply calls AddRecord.)
C21_DestroyFlipsPointerOnly ==
  depObj.kind \in {"absent", "json"} =>
    \A opts \in DestroyOpts, op \in DestroyRuns :
      \A o \in destroyExecute(Store, opts, op) :
        IF o.err = NoErr
          THEN /\ o.st.depObj.kind = "json"
               /\ o.st.depObj.latest.set
               /\ o.st.depObj.latest.status = StatusDestroyed
               /\ o.st.depObj.deployments = StoredDeployments
               /\ o.st.depObj.latest.deployment = StoredLatest.deployment
          ELSE o.st.depObj = depObj

\* C22: an apply or a destroy whose deployment-ledger write (AddRecord,
\* MarkAsDestroyed) returned an error does not return success; neither
\* does an apply whose version-ledger append failed.
C22_LedgerWriteErrorsReachTheCaller ==
  /\ \A in \in ApplyInputs :
       \A o \in applyExecute(Store, localHash, in[1], in[2], in[3]) :
         (o.recErr \notin {NoErr, NotCalled}
            \/ o.addErr \notin {NoErr, NotCalled}) => o.err # NoErr
  /\ \A opts \in DestroyOpts, op \in DestroyRuns :
       \A o \in destroyExecute(Store, opts, op) :
         o.recErr \notin {NoErr, NotCalled} => o.err # NoErr

\* the goroutines between m.mu.Lock() and the deferred Unlock
InMutation == {t \in Threads : threads[t].pc \in {"exists", "assign", "save",
                                                    "unlock"}}
\* the goroutines between m.mu.RLock() and the deferred RUnlock
InRead == {t \in Threads : threads[t].pc \in {"read", "runlock"}}

\* the add calls that have returned and whose environment passed validation
Returned ==
  {t \in Adders : /\ threads[t].pc = "done"
                  /\ threads[t].err # "invalid environment configuration"}

\* C23: of two goroutines that add the same name exactly one succeeds and
\* the other gets the already-exists error; when they add different names
\* both names are in the manager's Config and in the registry file
\* afterwards; and no goroutine reads the Config while another is between
\* Lock and Unlock, nor do two goroutines mutate it at once.
C23_AddsAreSerialized ==
  /\ \A t \in Returned, u \in Returned :
       (t # u /\ threads[t].name = threads[u].name) =>
         \/ /\ threads[t].err = NoErr
            /\ threads[u].err = "environment already exists"
         \/ /\ threads[u].err = NoErr
            /\ threads[t].err = "environment already exists"
  /\ \A t \in Returned, u \in Returned :
       threads[t].name # threads[u].name =>
         /\ {threads[t].name, threads[u].name}
              \subseteq DOMAIN mgr.config.Environments
         /\ {threads[t].name, threads[u].name}
              \subseteq DOMAIN NewManager(configFile).Environments
  /\ Cardinality(InMutation) <= 1
  /\ InMutation # {} => InRead = {}

\* C24: when runUpdate returns from a rename, the environment is
\* registered under exactly one of the two names, the new one (and as the
\* entry's own name) when it returned nil and the old one, unchanged, when
\* it returned an error, and every other entry of the registry is as it
\* was.
C24_RenameKeepsTheEnvironment ==
  \A envName \in DOMAIN Registered, answers \in EnvironmentInputs,
     mkdir \in Net, wrRemove \in Net, wr \in Net :
    (answers.Name # "" /\ answers.Name # envName) =>
      LET r == runUpdate(configFile, envName, answers, mkdir, wrRemove, wr)
          after == NewManager(r.file).Environments
      IN /\ \A n \in DOMAIN Registered \ {envName, answers.Name} :
              n \in DOMAIN after /\ after[n] = Registered[n]
         /\ IF r.err = NoErr
              THEN /\ envName \notin DOMAIN after
                   /\ answers.Name \in DOMAIN after
                   /\ after[answers.Name].Name = answers.Name
              ELSE /\ envName \in DOMAIN after
                   /\ after[envName] = Registered[envName]
                   /\ answers.Name \in DOMAIN Registered =>
                        /\ answers.Name \in DOMAIN after
                        /\ after[answers.Name] = Registered[answers.Name]
                   /\ answers.Name \notin DOMAIN Registered =>
                        answers.Name \notin DOMAIN after


\* the processes whose write of the ledger that call keeps was the last to
\* reach the store
LastWriter(call) ==
  {p \in Procs :
     /\ writers[p].call = call /\ writers[p].wrote > 0
     /\ \A q \in Procs : writers[q].call = call
                            => writers[q].wrote <= writers[p].wrote}

\* C25: when processes run AddVersion (or AddRecord) on one environment side
\* by side, the stored ledger is the whole result of the update of the
\* process that wrote last: it holds that process's entry, as the head and
\* the latest pointer, and apart from it only entries of the ledger that
\* process had read, never an entry another process wrote in between.
C25_LastWriterWins ==
  /\ \A p \in LastWriter("AddVersion") :
       LET w == writers[p] IN
       /\ verObj.kind = "json"
       /\ Len(verObj.versions) >= 1
       /\ verObj.versions[1] = w.version
       /\ verObj.latest_version_id = w.version.version_id
       /\ \A i \in 2..Len(verObj.versions) :
            /\ w.seen.kind = "json"
            /\ \E j \in 1..Len(w.seen.versions) :
                 w.seen.versions[j] = verObj.versions[i]
  /\ \A p \in LastWriter("AddRecord") :
       LET w == writers[p] IN
       /\ depObj.kind = "json"
       /\ depObj.latest.set /\ depObj.latest.deployment = w.record
       /\ \E i \in 1..Len(depObj.deployments) :
            depObj.deployments[i] = w.record
       /\ \A i \in 1..Len(depObj.deployments) :
            \/ depObj.deployments[i] = w.record
            \/ /\ w.seen.kind = "json"
               /\ \E j \in 1..Len(w.seen.deployments) :
                    w.seen.deployments[j] = depObj.deployments[i]

\* both processes ran AddVersion to a nil return with every store request
\* answered, and the ledger does not hold the entry of the one that wrote
\* first
C25_Witness ==
  \E p \in Procs, q \in Procs :
    /\ writers[p].call = "AddVersion" /\ writers[q].call = "AddVersion"
    /\ writers[p].pc = "done" /\ writers[q].pc = "done"
    /\ writers[p].rd = "ok" /\ writers[q].rd = "ok"
    /\ writers[p].wrote = 1 /\ writers[q].wrote = 2
    /\ verObj.kind = "json"
    /\ \A i \in 1..Len(verObj.versions) :
         verObj.versions[i] # writers[p].version


\* C26: runDownload overwrites an existing local file only when its hash
\* differs from the resolved version's hash, the operator answered yes or
\* force was given, and a copy of the existing file was put under .backups
\* first; with equal hashes, a declined prompt or a failed backup the local
\* file is as it was; and after a nil return the local file holds what the
\* store holds for the resolved version id.
C26_DownloadOverwritesWithBackup ==
  \A in \in DownloadInputs :
    LET versionID == in[1]
        force == in[2]
        answer == in[3]
    IN
    \A o \in runDownload(Store, localHash, versionID, force, answer) :
      /\ (localHash # 0 /\ o.local # localHash)
           => /\ o.ver.hash # localHash
              /\ force \/ answer = "yes"
              /\ o.backup = localHash
      /\ (o.ver # NoVersion /\ o.ver.hash = localHash) => o.local = localHash
      /\ (localHash # 0 /\ ~force /\ answer # "yes") => o.local = localHash
      /\ o.err = "failed to create backup" => o.local = localHash
      /\ o.err = NoErr
           => /\ o.ver.version_id \in 1..Len(blobs)
              /\ o.local = blobs[o.ver.version_id]

\* the operator's file differs from a stored version that the ledger
\* lists, and an unforced download of that version, after a yes, returns nil
\* having copied the file under .backups and written the version's bytes
C26_Witness ==
  /\ localHash # 0
  /\ \E versionID \in 1..MaxBlobs :
       \E o \in runDownload(Store, localHash, versionID, FALSE, "yes") :
         /\ o.err = NoErr /\ o.wrote
         /\ o.local # localHash /\ o.backup = localHash


\* C27: an apply that ends with "deployment cancelled by user" at the
\* approval prompt leaves the version ledger and the stored tfvars versions
\* as they were, with a local file as with a remote version: nothing is
\* uploaded or recorded before the operator has approved.
C27_DeclinedApplyUploadsNothing ==
  \A in \in ApplyInputs :
    LET opts == in[1]
        env == in[2]
        op == in[3]
    IN \A local \in IF opts.Remote THEN {localHash} ELSE 0..MaxHash :
       \A o \in applyExecute(Store, local, opts, env, op) :
         o.err = "deployment cancelled by user"
           => /\ o.st.verObj = verObj
              /\ o.st.blobs = blobs
              /\ o.added = NoVersion


\* the status of the latest-deployment pointer of a stored ledger object, ""
\* when there is none
PointerStatus(obj) ==
  IF obj.kind = "json" /\ obj.latest.set THEN obj.latest.status ELSE ""

\* C28: the latest-deployment pointer is active only if the most recent
\* successful apply or destroy was an apply: an apply or a destroy that
\* returns an error never turns a pointer that is not active (a destroyed
\* one, or none) into an active one, and a destroy that returns nil never
\* leaves an active pointer.
C28_ActiveOnlyAfterSuccessfulApply ==
  /\ PointerStatus(depObj) # StatusActive =>
       /\ \A in \in ApplyInputs :
            \A o \in applyExecute(Store, localHash, in[1], in[2], in[3]) :
              o.err # NoErr => PointerStatus(o.st.depObj) # StatusActive
       /\ \A in \in DestroyInputs :
            \A o \in destroyExecute(Store, in[1], in[2]) :
              o.err # NoErr => PointerStatus(o.st.depObj) # StatusActive
  /\ \A in \in DestroyInputs :
       \A o \in destroyExecute(Store, in[1], in[2]) :
         o.err = NoErr => PointerStatus(o.st.depObj) # StatusActive


\* the plan command lines and what the caller's account and terraform do
PlanInputs ==
  [Remote : BOOLEAN, VersionID : 0..MaxBlobs]
    \X [account : {"match", "mismatch", "error"}, terraform : {"ok", "fail"}]

\* C29: plan, apply and destroy each compare the caller's account id with
\* the environment's and, when they differ, return an error without running
\* the terraform binary.
C29_NoRunOnAnotherAccount ==
  /\ \A in \in PlanInputs :
       in[2].account = "mismatch" =>
         \A r \in runnerPlan(Store, in[1], in[2]) : r.err # NoErr /\ ~r.tf
  /\ \A in \in ApplyInputs :
       in[3].account = "mismatch" =>
         \A o \in applyExecute(Store, localHash, in[1], in[2], in[3]) :
           o.err # NoErr /\ ~o.tf
  /\ \A in \in DestroyInputs, account \in {"match", "mismatch"} :
       account = "mismatch" =>
         \A o \in destroyExecute(Store, in[1],
                                 [typed |-> in[2].typed,
                                  terraform |-> in[2].terraform,
                                  account |-> account]) :
           o.err # NoErr /\ ~o.tf


\* the environments the rename is tried on: "dev", registered by the add
\* command
RenamedEnvironments == {e \in SharedEnvironments : e.Name = "dev"}

\* the answers of an operator who gives a new name and leaves every other
\* prompt blank
OnlyRename(newName) ==
  [Name |-> newName, Bucket |-> "", Prefix |-> "", TFVarsKey |-> "",
   AccountID |-> "", Region |-> "", TFVarsPath |-> << >>]

\* C30: after runUpdate has renamed an environment, with bucket, prefix and
\* tfvars key as they were, the ledger keys derived from the renamed
\* environment are the keys of the old one, and GetVersions,
\* GetLatestVersion, GetHistory and GetLatestDeployment on it return what
\* they returned before the rename.
C30_RenameKeepsLedgers ==
  \A env \in RenamedEnvironments, newName \in {"stg", "prod"} :
    LET file == AddEnvironment(AbsentFile, env.Name, env, "ok", "ok").file
        r == runUpdate(file, env.Name, OnlyRename(newName), "ok", "ok", "ok")
        before == NewManager(file).Environments[env.Name]
        after == NewManager(r.file).Environments[newName]
        bucket == Bucket(before, Store)
        versions == GetObject(bucket, GetVersionMetadataKey(after))
        history == GetObject(bucket, GetDeploymentHistoryKey(after))
    IN r.err = NoErr =>
         /\ GetVersionMetadataKey(after) = GetVersionMetadataKey(before)
         /\ GetDeploymentHistoryKey(after) = GetDeploymentHistoryKey(before)
         /\ \A rd \in Net :
              /\ GetVersions(versions, rd, NoOptions)
                   = GetVersions(verObj, rd, NoOptions)
              /\ GetLatestVersion(versions, rd) = GetLatestVersion(verObj, rd)
              /\ GetHistory(history, rd) = GetHistory(depObj, rd)
              /\ GetLatestDeployment(history, rd)
                   = GetLatestDeployment(depObj, rd)

====
